---- MODULE Spec2Model ----
(***************************************************************************)
(* Road-Raksha ambulance server: the fleet position simulator behind       *)
(* GET /api/ambulances (src/unnamed/part_004, lines 143-319).              *)
(*                                                                         *)
(* Coordinates are fixed-point integers with UnitsPerDegree units per      *)
(* degree.  UnitsPerDegree equals the code's 111000 metres per degree, so  *)
(* one unit is one metre of the code's planar distance.  Times are in      *)
(* milliseconds, speeds in km/h.  The inputs (spawn offsets, speeds,       *)
(* elapsed times, provider geometries) are chosen so that every division   *)
(* and square root the code performs is exact on this grid.                *)
(*                                                                         *)
(* Node runs each handler to completion: the GET handler contains no await *)
(* and is one action; the only suspension point is the await of the route  *)
(* fetch in assignNewRoute, whose continuation is a separate action.       *)
(***************************************************************************)
EXTENDS Integers, Sequences, FiniteSets, TLC

VARIABLES
    ambulances,   \* part_004:163  let ambulances = []
    lastUpdate,   \* part_004:164  let lastUpdate = Date.now()
    inflight,     \* route fetches awaiting axios.get (part_004:170, 217)
    now,          \* the value Date.now() returned last (environment clock)
    rng,          \* the state of Math.random's generator
    response,     \* the body of the last res.json (part_004:313-318)
    anchor,       \* history: the centre passed to the last initializeAmbulances
    lastQuery,    \* history: req.query of the last request
    lastStep,     \* history: what the last handler or continuation did
    queries,      \* history: number of requests handled
    completions,  \* history: number of route fetches completed
    lastRespawn   \* history: the request that called initializeAmbulances last

vars == <<ambulances, lastUpdate, inflight, now, rng, response, anchor,
          lastQuery, lastStep, queries, completions, lastRespawn>>

-----------------------------------------------------------------------------
(* Bounds of the exploration *)

\* requests handled, route fetches settled, fleets created after the first
MaxQueries == 3
MaxCompletions == 2
MaxRespawns == 1

\* requests of a polling client, and the polls that take the slowest vehicle
\* along the longest of RouteShapes when the polls are 1 s apart
MaxPolls == 7
PollsToArrive == 6

\* requests of clients that take turns
MaxAlternations == 3

-----------------------------------------------------------------------------
(* Program constants *)

MetersPerDegree == 111000
UnitsPerDegree == MetersPerDegree
FleetSize == 10
MaxDeltaMs == 2000

\* d is a number of 1/10000 degrees
Deg4(d) == (d * (UnitsPerDegree \div 1000)) \div 10

BASE_LAT == Deg4(286139)
BASE_LNG == Deg4(772090)

\* 0.1, 0.02 and 0.03 degrees
RespawnThreshold == UnitsPerDegree \div 10
SpawnRadius == (2 * UnitsPerDegree) \div 100
DestRadius == (3 * UnitsPerDegree) \div 100

driverNames ==
    << "Rahul Singh", "Vikram Malhotra", "Amit Kumar", "Suresh Raina",
       "Chandu Model", "Anjali Gupta", "Rohan Das", "Karan Johar",
       "Sneha Reddy", "Arjun Kapoor" >>

statuses == << "Available", "En Route", "Busy" >>

\* the number Infinity: it stands above every coordinate of the grid, and
\* Plus, TooFar and the route provider treat it as IEEE 754 does
Infinity == 2147483647
IsFinite(x) == x # Infinity

\* x + d for a finite d
Plus(x, d) == IF IsFinite(x) THEN x + d ELSE Infinity

\* null is the empty option, a value v is << v >>
Null == << >>
Some(v) == << v >>

-----------------------------------------------------------------------------
(* Inputs *)

\* states Math.random's generator is seeded with when the process starts
Seeds == {0, 1}

\* the fleet slots whose route fetches the provider answers while the
\* process is observed; the fetches of the other slots stay pending
Answered == {1}

\* getRandom(-0.02, 0.02): the interval is [-SpawnRadius, SpawnRadius)
SpawnOffsets ==
    << [lat |-> 1110, lng |-> -555],
       [lat |-> -SpawnRadius, lng |-> SpawnRadius - 1],
       [lat |-> 0, lng |-> 0] >>

\* Math.floor(getRandom(30, 60)) is one of 30..59
SpeedDraws == << 36, 54 >>

\* getRandom(-0.03, 0.03), twice: the interval is [-DestRadius, DestRadius)
DestOffsets ==
    << [lat |-> 15, lng |-> 25],
       [lat |-> DestRadius - 1, lng |-> -DestRadius] >>

\* geometries the route provider answers with, as offsets from the start of
\* the request: a start and an end snapped to one point, and a diagonal leg
\* of 25 m followed by legs of 20 m and 5 m
RouteShapes ==
    { << [lat |-> 0, lng |-> 0], [lat |-> 0, lng |-> 0] >>,
      << [lat |-> 0, lng |-> 0], [lat |-> 15, lng |-> 20],
         [lat |-> 15, lng |-> 40], [lat |-> 15, lng |-> 45] >> }

\* milliseconds between two readings of Date.now()
Gaps == {0, 1000, 1000000}

Point(lat, lng) == [lat |-> lat, lng |-> lng]

BaseRef == Point(BASE_LAT, BASE_LNG)
FarRef == Point(Deg4(296000), Deg4(782000))
\* a viewer 10 m less than the respawn threshold south of where the first
\* vehicle of a fleet spawned around BaseRef from seed 0 starts
EdgeRef ==
    Point(BASE_LAT + SpawnOffsets[2].lat - (RespawnThreshold - 10),
          BASE_LNG + SpawnOffsets[2].lng)

\* a viewer 0.09 degrees north of BaseRef
NearRef == Point(BASE_LAT + (9 * UnitsPerDegree) \div 100, BASE_LNG)

\* a viewer 0.09 degrees south of BaseRef
SouthRef == Point(BASE_LAT - (9 * UnitsPerDegree) \div 100, BASE_LNG)

\* req.query: each parameter is undefined or a string, here the kind of
\* string and, for a numeric string, the number it denotes
Absent == [kind |-> "undefined", num |-> 0]
Text == [kind |-> "text", num |-> 0]
Numeric(n) == [kind |-> "numeric", num |-> n]
Infinite == [kind |-> "infinity", num |-> 0]
NoQuery == [lat |-> Absent, lng |-> Absent]
QueryOf(p) == [lat |-> Numeric(p.lat), lng |-> Numeric(p.lng)]
\* ?lat=Infinity&lng=77.2090
InfQuery == [lat |-> Infinite, lng |-> Numeric(BASE_LNG)]
\* ?lat=abc&lng=78.2000
MixedQuery == [lat |-> Text, lng |-> Numeric(FarRef.lng)]
\* ?lat=29.6000
OnlyLat == [lat |-> Numeric(FarRef.lat), lng |-> Absent]
\* ?lat=0&lng=0
ZeroQuery == QueryOf(Point(0, 0))
Queries ==
    { NoQuery, QueryOf(FarRef), QueryOf(EdgeRef), QueryOf(NearRef), InfQuery,
      MixedQuery, OnlyLat, ZeroQuery }

-----------------------------------------------------------------------------
(* Helpers *)

Min(a, b) == IF a <= b THEN a ELSE b
Abs(a) == IF a < 0 THEN -a ELSE a

\* Math.sqrt on the grid: the largest r with r * r <= n, by bisection
RECURSIVE SqrtBetween(_, _, _)
SqrtBetween(n, lo, hi) ==
    IF lo >= hi THEN lo
    ELSE LET mid == (lo + hi + 1) \div 2
         IN  IF mid * mid <= n THEN SqrtBetween(n, mid, hi)
             ELSE SqrtBetween(n, lo, mid - 1)
Sqrt(n) == SqrtBetween(n, 0, Min(n, 46340))

\* `AMB${i.toString().padStart(3, '0')}`
Digits(n) == IF n < 10 THEN << n >> ELSE << n \div 10, n % 10 >>
PadStart(s, len, fill) == [k \in 1..(len - Len(s)) |-> fill] \o s
AmbId(i) == << "A", "M", "B" >> \o PadStart(Digits(i), 3, 0)

\* the value Math.random yields for slot n to a handler that starts with the
\* generator in state seed
Draw(table, seed, n) == table[((seed + n) % Len(table)) + 1]

\* parseFloat of a query parameter: a number or NaN
ParseFloat(p) ==
    IF p.kind = "numeric" THEN [nan |-> FALSE, num |-> p.num]
    ELSE IF p.kind = "infinity" THEN [nan |-> FALSE, num |-> Infinity]
    ELSE [nan |-> TRUE, num |-> 0]

\* x || d for a number x: NaN and 0 are falsy
OrDefault(x, d) == IF x.nan \/ x.num = 0 THEN d ELSE x.num

\* line 292 without the test of lat && lng
TruthyParamAlways(p) == TRUE

\* truthiness of a raw query parameter: undefined and "" are falsy
TruthyParam(p) == p.kind \notin {"undefined", "empty"}

-----------------------------------------------------------------------------
(* Route provider (OSRM) and fetchRoute, part_004:167-181 *)

\* what axios.get did: it threw, or it returned response.data
NetworkError == [threw |-> TRUE, routes |-> << >>]

\* routes[0].geometry.coordinates of the provider: [lng, lat] pairs
OsrmGeometry(startLat, startLng, shape) ==
    [k \in 1..Len(shape) |->
        << startLng + shape[k].lng, startLat + shape[k].lat >>]

OsrmOk(startLat, startLng, shape) ==
    [threw |-> FALSE,
     routes |-> << [coordinates |-> OsrmGeometry(startLat, startLng, shape)] >>]

OsrmNoRoute == [threw |-> FALSE, routes |-> << >>]

\* an error body of the provider: response.data has no routes
OsrmErrorBody == [threw |-> FALSE, code |-> "InvalidQuery"]

\* a malformed body: the first route has no geometry
OsrmNoGeometry == [threw |-> FALSE, routes |-> << [weight |-> 0] >>]

\* a body with two candidate routes
OsrmWithAlternative(startLat, startLng, shape, other) ==
    [threw |-> FALSE,
     routes |-> << [coordinates |-> OsrmGeometry(startLat, startLng, shape)],
                   [coordinates |-> OsrmGeometry(startLat, startLng, other)] >>]

\* what axios.get can do without a route coming of it
Failures == { NetworkError, OsrmNoRoute, OsrmErrorBody, OsrmNoGeometry }

\* what axios.get can return with first candidate route of the given shape
Successes(startLat, startLng, shape) ==
    { OsrmOk(startLat, startLng, shape) }
    \cup { OsrmWithAlternative(startLat, startLng, shape, other) :
             other \in RouteShapes \ {shape} }

\* fetchRoute returning the last candidate route
FetchRouteLastCandidate(resp) ==
    IF resp.threw THEN Null
    ELSE IF "routes" \notin DOMAIN resp THEN Null
    ELSE IF Len(resp.routes) > 0
         THEN IF "coordinates" \notin DOMAIN resp.routes[Len(resp.routes)]
              THEN Null
              ELSE LET coordinates == resp.routes[Len(resp.routes)].coordinates
                   IN  Some([k \in 1..Len(coordinates) |->
                              [lat |-> coordinates[k][2],
                               lng |-> coordinates[k][1]]])
         ELSE Null

\* fetchRoute without the exchange of lines 173-174
FetchRouteAsOnWire(resp) ==
    IF resp.threw THEN Null
    ELSE IF "routes" \notin DOMAIN resp THEN Null
    ELSE IF Len(resp.routes) > 0
         THEN IF "coordinates" \notin DOMAIN resp.routes[1]
              THEN Null
              ELSE LET coordinates == resp.routes[1].coordinates
                   IN  Some([k \in 1..Len(coordinates) |->
                              [lat |-> coordinates[k][1],
                               lng |-> coordinates[k][2]]])
         ELSE Null

\* part_004:167-181: the value fetchRoute resolves to, given what axios.get
\* did: the waypoints, or null.  A body without routes fails the test of
\* line 171; a route without geometry throws inside the try and line 177
\* catches it.
FetchRoute(resp) ==
    IF resp.threw THEN Null
    ELSE IF "routes" \notin DOMAIN resp THEN Null
    ELSE IF Len(resp.routes) > 0
         THEN IF "coordinates" \notin DOMAIN resp.routes[1]
              THEN Null
              ELSE LET coordinates == resp.routes[1].coordinates
                   IN  Some([k \in 1..Len(coordinates) |->
                              [lat |-> coordinates[k][2],
                               lng |-> coordinates[k][1]]])
         ELSE Null

-----------------------------------------------------------------------------
(* Fleet manager, part_004:184-224 *)

\* part_004:193-203: the vehicle of slot i.  batch names the call of
\* initializeAmbulances that created the object; shared tells that
\* amb.location and amb.route[amb.routeIndex] are one object (after line 256).
NewAmbulance(i, centerLat, centerLng, seed, batch, time) ==
    [id |-> AmbId(i),
     driverName |-> driverNames[i],
     status |-> Draw(statuses, seed, i),
     speed |-> Draw(SpeedDraws, seed, i),
     location |-> [lat |-> Plus(centerLat, Draw(SpawnOffsets, seed, i).lat),
                   lng |-> Plus(centerLng, Draw(SpawnOffsets, seed, i).lng)],
     lastUpdated |-> time,
     route |-> << >>,
     routeIndex |-> 0,
     destination |-> Null,
     batch |-> batch,
     shared |-> FALSE]

\* InitializeAmbulances starting the vehicles around the default centre
\* whatever centre it is called with
InitializeAmbulancesAtBase(centerLat, centerLng, seed, batch, time) ==
    [i \in 1..FleetSize |->
        NewAmbulance(i, BASE_LAT, BASE_LNG, seed, batch, time)]

\* part_004:184-210: the new value of ambulances
InitializeAmbulances(centerLat, centerLng, seed, batch, time) ==
    [i \in 1..FleetSize |->
        NewAmbulance(i, centerLat, centerLng, seed, batch, time)]

\* RouteRequest issued for every second vehicle only
RouteRequestForOdd(amb, i, centerLat, centerLng, seed) ==
    [batch |-> amb.batch,
     slot |-> IF i % 2 = 1 THEN i ELSE i - 1,
     startLat |-> amb.location.lat,
     startLng |-> amb.location.lng,
     destLat |-> Plus(centerLat, Draw(DestOffsets, seed, i).lat),
     destLng |-> Plus(centerLng, Draw(DestOffsets, seed, i).lng)]

\* part_004:212-217: the fetch assignNewRoute leaves pending for the vehicle
\* of slot i
RouteRequest(amb, i, centerLat, centerLng, seed) ==
    [batch |-> amb.batch,
     slot |-> i,
     startLat |-> amb.location.lat,
     startLng |-> amb.location.lng,
     destLat |-> Plus(centerLat, Draw(DestOffsets, seed, i).lat),
     destLng |-> Plus(centerLng, Draw(DestOffsets, seed, i).lng)]

\* ApplyRoute with the cursor set to the number of waypoints instead of 0
ApplyRouteAtEnd(amb, req, route) ==
    IF route # Null
    THEN [amb EXCEPT !.route = route[1],
                     !.routeIndex = Len(route[1]),
                     !.destination = Some([lat |-> req.destLat,
                                           lng |-> req.destLng]),
                     !.shared = FALSE]
    ELSE amb

\* ApplyRoute with a straight line to the destination when the fetch failed
ApplyRouteOrDirect(amb, req, route) ==
    [amb EXCEPT !.route = IF route # Null THEN route[1]
                          ELSE << amb.location,
                                  [lat |-> req.destLat, lng |-> req.destLng] >>,
                !.routeIndex = 0,
                !.destination = Some([lat |-> req.destLat,
                                      lng |-> req.destLng]),
                !.shared = FALSE]

\* ApplyRoute that also puts the vehicle on the second waypoint of the path
ApplyRouteAndAdvance(amb, req, route) ==
    IF route # Null
    THEN [amb EXCEPT !.route = route[1],
                     !.routeIndex = 0,
                     !.destination = Some([lat |-> req.destLat,
                                           lng |-> req.destLng]),
                     !.location = route[1][2],
                     !.shared = FALSE]
    ELSE amb

\* ApplyRoute resetting the cursor and the destination when the fetch failed
ApplyRouteResetOnFailure(amb, req, route) ==
    IF route # Null
    THEN [amb EXCEPT !.route = route[1],
                     !.routeIndex = 0,
                     !.destination = Some([lat |-> req.destLat,
                                           lng |-> req.destLng]),
                     !.shared = FALSE]
    ELSE [amb EXCEPT !.routeIndex = 0, !.destination = Null]

\* part_004:219-223: assignNewRoute after the await, on the object amb
ApplyRoute(amb, req, route) ==
    IF route # Null
    THEN [amb EXCEPT !.route = route[1],
                     !.routeIndex = 0,
                     !.destination = Some([lat |-> req.destLat,
                                           lng |-> req.destLng]),
                     !.shared = FALSE]
    ELSE amb

-----------------------------------------------------------------------------
(* Tick engine, part_004:227-277 *)

\* DeltaTime without the Math.min of line 230
DeltaTimeUncapped(time, last) == time - last

\* part_004:230, in milliseconds
DeltaTime(time, last) == Min(time - last, MaxDeltaMs)

\* DistToMove of a vehicle that stands still
DistToMoveStalled(speed, deltaMs) == 0

\* DistToMove without the division by 3.6 of line 236
DistToMoveUnconverted(speed, deltaMs) == (speed * deltaMs) \div 1000

\* part_004:236-237: (speed / 3.6) * deltaTime, metres
DistToMove(speed, deltaMs) == (speed * deltaMs) \div 3600

\* part_004:252: metres
DistToNext(dLat, dLng) ==
    (Sqrt(dLat * dLat + dLng * dLng) * MetersPerDegree) \div UnitsPerDegree

\* route[k] of the code, k counted from 0
At(route, k) == route[k + 1]

\* part_004:233
HasRoute(amb) == Len(amb.route) # 0

\* part_004:245
BeforeLast(amb) == amb.routeIndex < Len(amb.route) - 1

\* line 254 jumping to the next point whatever the distance
ReachesAlways(distToMove, distToNext) == TRUE

\* part_004:254
Reaches(distToMove, distToNext) == distToMove >= distToNext

\* Move without line 256: the cursor advances, the location stays
MoveStale(amb, deltaMs) ==
    LET nextPoint == At(amb.route, amb.routeIndex + 1)
        currPoint == amb.location
        dLat == nextPoint.lat - currPoint.lat
        dLng == nextPoint.lng - currPoint.lng
        distToMove == DistToMove(amb.speed, deltaMs)
        distToNext == DistToNext(dLat, dLng)
    IN  IF Reaches(distToMove, distToNext)
        THEN [amb EXCEPT !.routeIndex = @ + 1]
        ELSE [amb EXCEPT !.location =
                           [lat |-> currPoint.lat
                                      + (dLat * distToMove) \div distToNext,
                            lng |-> currPoint.lng
                                      + (dLng * distToMove) \div distToNext]]

\* Move spending what the budget leaves at the next point on the leg after it
MoveOnward(amb, deltaMs) ==
    LET nextPoint == At(amb.route, amb.routeIndex + 1)
        currPoint == amb.location
        dLat == nextPoint.lat - currPoint.lat
        dLng == nextPoint.lng - currPoint.lng
        distToMove == DistToMove(amb.speed, deltaMs)
        distToNext == DistToNext(dLat, dLng)
    IN  IF Reaches(distToMove, distToNext)
        THEN IF /\ amb.routeIndex + 2 < Len(amb.route)
                /\ LET afterNext == At(amb.route, amb.routeIndex + 2)
                   IN  Reaches(distToMove - distToNext,
                               DistToNext(afterNext.lat - nextPoint.lat,
                                          afterNext.lng - nextPoint.lng))
             THEN [amb EXCEPT !.location = At(amb.route, amb.routeIndex + 2),
                              !.routeIndex = @ + 2,
                              !.shared = TRUE]
             ELSE [amb EXCEPT !.location = nextPoint,
                              !.routeIndex = @ + 1,
                              !.shared = TRUE]
        ELSE LET moved == [lat |-> currPoint.lat
                                     + (dLat * distToMove) \div distToNext,
                           lng |-> currPoint.lng
                                     + (dLng * distToMove) \div distToNext]
             IN  [amb EXCEPT !.location = moved,
                             !.route = IF amb.shared
                                       THEN [@ EXCEPT ![amb.routeIndex + 1] = moved]
                                       ELSE @]

\* part_004:254-263: the vehicle after the move towards route[routeIndex+1]
Move(amb, deltaMs) ==
    LET nextPoint == At(amb.route, amb.routeIndex + 1)
        currPoint == amb.location
        dLat == nextPoint.lat - currPoint.lat
        dLng == nextPoint.lng - currPoint.lng
        distToMove == DistToMove(amb.speed, deltaMs)
        distToNext == DistToNext(dLat, dLng)
    IN  IF Reaches(distToMove, distToNext)
        THEN [amb EXCEPT !.location = nextPoint,
                         !.routeIndex = @ + 1,
                         !.shared = TRUE]
        ELSE LET moved == [lat |-> currPoint.lat
                                     + (dLat * distToMove) \div distToNext,
                           lng |-> currPoint.lng
                                     + (dLng * distToMove) \div distToNext]
             IN  [amb EXCEPT !.location = moved,
                             !.route = IF amb.shared
                                       THEN [@ EXCEPT ![amb.routeIndex + 1] = moved]
                                       ELSE @]

\* the arrival branch without line 268: the finished path is kept
ClearRouteKept(amb) == amb

\* part_004:268
ClearRoute(amb) == [amb EXCEPT !.route = << >>, !.shared = FALSE]

\* UpdateAmbulance with the status driven by the movement
UpdateAmbulanceWithStatus(amb, deltaMs, time) ==
    IF ~HasRoute(amb) THEN amb
    ELSE [(IF BeforeLast(amb) THEN Move(amb, deltaMs) ELSE ClearRoute(amb))
            EXCEPT !.lastUpdated = time,
                   !.status = IF BeforeLast(amb) THEN "En Route"
                              ELSE "Available"]

\* UpdateAmbulance with line 273 reached by vehicles without a path too
UpdateAmbulanceStampAll(amb, deltaMs, time) ==
    IF ~HasRoute(amb) THEN [amb EXCEPT !.lastUpdated = time]
    ELSE [(IF BeforeLast(amb) THEN Move(amb, deltaMs) ELSE ClearRoute(amb))
            EXCEPT !.lastUpdated = time]

\* part_004:232-274: one vehicle in one tick
UpdateAmbulance(amb, deltaMs, time) ==
    IF ~HasRoute(amb) THEN amb
    ELSE [(IF BeforeLast(amb) THEN Move(amb, deltaMs) ELSE ClearRoute(amb))
            EXCEPT !.lastUpdated = time]

\* the tick without the return of line 233: a vehicle without a path falls
\* into the arrival branch too
ArrivedOrPathless(fleet) ==
    { i \in 1..Len(fleet) : ~BeforeLast(fleet[i]) }

\* the arrival branch without the call of line 270
ArrivedUnserved(fleet) == { }

\* part_004:264-270: the vehicles for which the tick calls assignNewRoute
Arrived(fleet) ==
    { i \in 1..Len(fleet) : HasRoute(fleet[i]) /\ ~BeforeLast(fleet[i]) }

\* part_004:232-274: the fleet after the tick
UpdateAmbulances(fleet, deltaMs, time) ==
    [i \in 1..Len(fleet) |-> UpdateAmbulance(fleet[i], deltaMs, time)]

\* line 276 reached only by a tick that found a vehicle with a path
LastUpdateIfTouched(fleet, last, time) ==
    IF \E i \in 1..Len(fleet) : HasRoute(fleet[i]) THEN time ELSE last

\* part_004:276: lastUpdate after the tick of the fleet at time
LastUpdate(fleet, last, time) == time

-----------------------------------------------------------------------------
(* Query interface, part_004:283-319 *)

\* TooFar with the distance measured from the default centre instead of
\* the first vehicle
TooFarFromBase(location, centerLat, centerLng) ==
    LET dLat == Abs(BASE_LAT - centerLat)
        dLng == Abs(BASE_LNG - centerLng)
    IN  \/ ~IsFinite(centerLat)
        \/ ~IsFinite(centerLng)
        \/ dLat > RespawnThreshold
        \/ dLng > RespawnThreshold
        \/ dLat * dLat + dLng * dLng > RespawnThreshold * RespawnThreshold

\* part_004:294-299: dist > 0.1, with dist the square root of the sum of the
\* squared differences in degrees.  A difference above the threshold on one
\* axis decides it before squaring.  Infinity - Infinity is NaN and every
\* comparison with NaN is false; a difference of Infinity makes dist Infinity.
TooFar(location, centerLat, centerLng) ==
    LET NaNAxis(a, b) == ~IsFinite(a) /\ ~IsFinite(b)
        InfAxis(a, b) == IsFinite(a) # IsFinite(b)
    IN  IF NaNAxis(location.lat, centerLat) \/ NaNAxis(location.lng, centerLng)
        THEN FALSE
        ELSE IF InfAxis(location.lat, centerLat)
                  \/ InfAxis(location.lng, centerLng)
        THEN TRUE
        ELSE LET dLat == Abs(location.lat - centerLat)
                 dLng == Abs(location.lng - centerLng)
             IN  \/ dLat > RespawnThreshold
                 \/ dLng > RespawnThreshold
                 \/ dLat * dLat + dLng * dLng
                        > RespawnThreshold * RespawnThreshold

\* part_004:290-303
ShouldReinit(fleet, q, centerLat, centerLng) ==
    \/ Len(fleet) = 0
    \/ /\ TruthyParam(q.lat)
       /\ TruthyParam(q.lng)
       /\ TooFar(fleet[1].location, centerLat, centerLng)

\* Respond reporting success only when every vehicle has a path
RespondIfRouted(fleet, time) ==
    [success |-> \A i \in 1..Len(fleet) : HasRoute(fleet[i]),
     count |-> Len(fleet),
     timestamp |-> time,
     data |-> fleet]

\* Respond counting only the vehicles that have a path
RespondCountingRouted(fleet, time) ==
    [success |-> TRUE,
     count |-> Cardinality({ i \in 1..Len(fleet) : HasRoute(fleet[i]) }),
     timestamp |-> time,
     data |-> fleet]

\* Respond with the list as the handler found it, before respawn and tick
RespondBeforeTick(fleet, time) ==
    [success |-> TRUE,
     count |-> Len(ambulances),
     timestamp |-> time,
     data |-> ambulances]

\* part_004:313-318
Respond(fleet, time) ==
    [success |-> TRUE,
     count |-> Len(fleet),
     timestamp |-> time,
     data |-> fleet]

\* the number of the call of initializeAmbulances that made the fleet
Batch == ambulances[1].batch

\* part_004:286-287
CenterLat(q) == OrDefault(ParseFloat(q.lat), BASE_LAT)
CenterLng(q) == OrDefault(ParseFloat(q.lng), BASE_LNG)

\* part_004:283-319: the handler of GET /api/ambulances run on query q, gap
\* milliseconds after the clock was last read
Handle(q, gap) ==
    /\ LET time == now + gap
           seed == rng
           centerLat == CenterLat(q)
           centerLng == CenterLng(q)
           shouldReinit == ShouldReinit(ambulances, q, centerLat, centerLng)
           spawned == IF shouldReinit
                      THEN InitializeAmbulances(centerLat, centerLng, seed,
                                                Batch + 1, time)
                      ELSE ambulances
           spawnRequests ==
               IF shouldReinit
               THEN { RouteRequest(spawned[i], i, centerLat, centerLng, seed) :
                        i \in 1..Len(spawned) }
               ELSE { }
           deltaMs == DeltaTime(time, lastUpdate)
           tickRequests ==
               { RouteRequest(spawned[i], i, spawned[i].location.lat,
                              spawned[i].location.lng, seed) :
                   i \in Arrived(spawned) }
           ticked == UpdateAmbulances(spawned, deltaMs, time)
       IN  /\ now' = time
           /\ rng' = IF shouldReinit \/ tickRequests # { } THEN rng + 1 ELSE rng
           /\ ambulances' = ticked
           /\ inflight' = inflight \cup spawnRequests \cup tickRequests
           /\ lastUpdate' = LastUpdate(spawned, lastUpdate, time)
           /\ response' = Some(Respond(ticked, time))
           /\ anchor' = IF shouldReinit
                        THEN [lat |-> centerLat, lng |-> centerLng]
                        ELSE anchor
           /\ lastQuery' = q
           /\ lastStep' = [kind |-> "query",
                           respawned |-> shouldReinit,
                           elapsed |-> gap,
                           ok |-> TRUE,
                           slot |-> 0,
                           again |-> FALSE]
           /\ lastRespawn' = IF shouldReinit
                             THEN [query |-> q, at |-> queries + 1]
                             ELSE lastRespawn
    /\ queries' = queries + 1
    /\ UNCHANGED completions

\* a request of the observed run: at most MaxQueries requests, of which at
\* most MaxRespawns respawn
Query(q, gap) ==
    /\ queries < MaxQueries
    /\ ShouldReinit(ambulances, q, CenterLat(q), CenterLng(q))
           => Batch < MaxRespawns
    /\ Handle(q, gap)

\* Settle with assignNewRoute resuming on whatever vehicle is in the slot,
\* not on the object it was called with
SettleBySlot(req, resp) ==
    /\ req \in inflight
    /\ req.slot \in Answered
    /\ completions < MaxCompletions
    /\ LET route == FetchRoute(resp)
           live == ambulances[req.slot].batch = req.batch
       IN  /\ ambulances' =
                 [i \in 1..Len(ambulances) |->
                    IF i = req.slot
                    THEN ApplyRoute(ambulances[i], req, route)
                    ELSE ambulances[i]]
           /\ lastStep' = [kind |-> IF live THEN "fetch" ELSE "stale",
                           respawned |-> FALSE,
                           elapsed |-> 0,
                           ok |-> route # Null,
                           slot |-> req.slot,
                           again |-> live /\ ambulances[req.slot].destination # Null]
    /\ inflight' = inflight \ {req}
    /\ completions' = completions + 1
    /\ UNCHANGED <<lastUpdate, now, rng, response, anchor, lastQuery, queries,
                   lastRespawn>>

\* part_004:217-223: axios.get of request req settles with resp and
\* assignNewRoute resumes on the object it was called with
Settle(req, resp) ==
    /\ req \in inflight
    /\ req.slot \in Answered
    /\ completions < MaxCompletions
    /\ LET route == FetchRoute(resp)
           live == ambulances[req.slot].batch = req.batch
       IN  /\ ambulances' =
                 [i \in 1..Len(ambulances) |->
                    IF i = req.slot /\ live
                    THEN ApplyRoute(ambulances[i], req, route)
                    ELSE ambulances[i]]
           /\ lastStep' = [kind |-> IF live THEN "fetch" ELSE "stale",
                           respawned |-> FALSE,
                           elapsed |-> 0,
                           ok |-> route # Null,
                           slot |-> req.slot,
                           again |-> live /\ ambulances[req.slot].destination # Null]
    /\ inflight' = inflight \ {req}
    /\ completions' = completions + 1
    /\ UNCHANGED <<lastUpdate, now, rng, response, anchor, lastQuery, queries,
                   lastRespawn>>

\* the provider has a route only between coordinates that are numbers
Routable(req) ==
    /\ IsFinite(req.startLat) /\ IsFinite(req.startLng)
    /\ IsFinite(req.destLat) /\ IsFinite(req.destLng)

FetchSucceed ==
    \E req \in inflight :
        /\ Routable(req)
        /\ \E shape \in RouteShapes :
               \E resp \in Successes(req.startLat, req.startLng, shape) :
                   Settle(req, resp)

FetchFail ==
    \E req \in inflight : \E resp \in Failures :
        Settle(req, resp)

Request == \E q \in Queries, gap \in Gaps : Query(q, gap)

-----------------------------------------------------------------------------
(* part_004:163-164, 280: the process after the module is loaded *)

Init ==
    \E seed \in Seeds :
        /\ ambulances = InitializeAmbulances(BASE_LAT, BASE_LNG, seed, 0, 0)
        /\ inflight = { RouteRequest(ambulances[i], i, BASE_LAT, BASE_LNG, seed) :
                          i \in 1..Len(ambulances) }
        /\ lastUpdate = 0
        /\ now = 0
        /\ rng = seed + 1
        /\ response = Null
        /\ anchor = BaseRef
        /\ lastQuery = NoQuery
        /\ lastStep = [kind |-> "load", respawned |-> TRUE, elapsed |-> 0,
                       ok |-> TRUE, slot |-> 0, again |-> FALSE]
        /\ queries = 0
        /\ completions = 0
        /\ lastRespawn = [query |-> NoQuery, at |-> 0]

Next == Request \/ FetchSucceed \/ FetchFail

Spec == Init /\ [][Next]_vars

\* the same process with a route provider that is never available
NextUnavailable == Request \/ FetchFail

SpecUnavailable == Init /\ [][NextUnavailable]_vars

\* the same process with a route provider that never answers: axios.get is
\* called without a timeout (part_004:170), so nothing but an answer settles
\* a fetch and requests are the only steps left; every request that arrives
\* is handled
NextSilent == Request

SpecSilent == Init /\ [][NextSilent]_vars /\ WF_vars(Request)

\* a client polling from the default centre, with and without coordinates
PollQueries == { NoQuery, QueryOf(BaseRef) }

\* MapComponent.jsx:93-109: the client requests the fleet again and again,
\* some time after its last request
Poll ==
    \E q \in PollQueries, gap \in Gaps \ {0} :
        /\ queries < MaxPolls
        /\ Handle(q, gap)

\* the step of a poll, told by the count of requests alone: the handler is
\* total, so a poll is possible exactly while one is left to count, and no
\* other step of NextPolling counts a request
PollSent == queries < MaxPolls /\ queries' = queries + 1
PollEnabledWhileCounted == (queries < MaxPolls) = ENABLED Poll

\* the process polled by that client while the route provider answers.  The
\* interval timer of the client keeps firing (MapComponent.jsx:109), so a
\* poll that can be sent is sent: weak fairness of the poll step.
NextPolling == Poll \/ FetchSucceed

SpecPolling == Init /\ [][NextPolling]_vars /\ WF_queries(PollSent)

\* clients that view the map from different places and take turns: each
\* sends its own coordinates (MapComponent.jsx:95), and no client sends two
\* requests in a row
ClientQueries == { QueryOf(NearRef), QueryOf(SouthRef), QueryOf(FarRef) }

Alternate ==
    \E q \in ClientQueries \ {lastQuery}, gap \in Gaps :
        /\ queries < MaxAlternations
        /\ Handle(q, gap)

\* the process queried by those clients while the route provider answers
\* every fetch it answers with a path
NextAlternating == Alternate \/ FetchSucceed

SpecAlternating == Init /\ [][NextAlternating]_vars

-----------------------------------------------------------------------------
(* Properties *)

\* a step that handles one request, a step that settles one route fetch
IsQueryStep == queries' = queries + 1
IsSettleStep == completions' = completions + 1

\* the vehicles of the last response
Data == response[1].data

\* squared planar distance, in square metres
DistSq(a, b) ==
    (a.lat - b.lat) * (a.lat - b.lat) + (a.lng - b.lng) * (a.lng - b.lng)

\* the object in slot i is the same before and after the step
SameObject(i) == ambulances'[i].batch = ambulances[i].batch

\* a route fetch of the vehicle in slot i of the fleet is pending
Pending(i) ==
    \E r \in inflight : r.batch = ambulances[i].batch /\ r.slot = i

\* C1: every response is the fleet as one whole respawn check and tick leaves
\* it: the response is the post-tick fleet, all its vehicles were created by
\* one call of initializeAmbulances, and a vehicle whose cursor the tick
\* advanced is at the waypoint the cursor advanced to; settling a route
\* fetch never alters a response.
C1_SnapshotAfterWholeTick ==
    [][ /\ IsQueryStep =>
            /\ response' # Null
            /\ response'[1].data = ambulances'
            /\ \A i, j \in 1..Len(ambulances') :
                   ambulances'[i].batch = ambulances'[j].batch
            /\ \A i \in 1..Len(ambulances') :
                   (SameObject(i)
                      /\ ambulances'[i].routeIndex # ambulances[i].routeIndex)
                   => /\ ambulances'[i].routeIndex = ambulances[i].routeIndex + 1
                      /\ ambulances'[i].location =
                             At(ambulances[i].route, ambulances'[i].routeIndex)
        /\ IsSettleStep => response' = response ]_vars

\* a response showing a vehicle the tick moved on to a waypoint while route
\* fetches are pending
C1_Witness ==
    /\ lastStep.kind = "query"
    /\ response # Null
    /\ inflight # { }
    /\ \E i \in 1..Len(Data) : HasRoute(Data[i]) /\ Data[i].routeIndex > 0

\* C2: every response reports success and carries the whole vehicle list,
\* whatever became of the route fetches.
C2_QueryAlwaysSucceeds ==
    response # Null =>
        /\ response[1].success
        /\ response[1].count = Len(Data)
        /\ Len(Data) = FleetSize
        /\ lastStep.kind = "query" => Data = ambulances

\* a response given while one vehicle's fetch has failed and others are
\* still pending
C2_Witness ==
    /\ lastStep.kind = "query"
    /\ response # Null
    /\ \E i \in 1..Len(ambulances) : ~HasRoute(ambulances[i]) /\ ~Pending(i)
    /\ \E i \in 1..Len(ambulances) : Pending(i)

C4_MoveWithinBudget ==
    [][ IsQueryStep =>
          \A i \in 1..Len(ambulances) :
              (SameObject(i) /\ HasRoute(ambulances[i]) /\ BeforeLast(ambulances[i]))
              => LET dt == Min(now' - lastUpdate, MaxDeltaMs)
                     budget == (ambulances[i].speed * dt) \div 3600
                 IN  DistSq(ambulances[i].location, ambulances'[i].location)
                         <= budget * budget ]_vars

\* a vehicle part of the way along the first leg of its path after a tick
\* with elapsed time
C4_Witness ==
    /\ lastStep.kind = "query"
    /\ lastStep.elapsed > 0
    /\ lastStep.elapsed < MaxDeltaMs
    /\ \E i \in 1..Len(ambulances) :
           /\ HasRoute(ambulances[i])
           /\ ambulances[i].routeIndex = 0
           /\ ambulances[i].location # At(ambulances[i].route, 0)

\* C5: whatever the time since the last tick, one tick moves a vehicle by at
\* most cap * speed / 3.6 metres, and a vehicle that stays on its leg after
\* a gap of the cap or more has moved by exactly that much.
C5_IdleGapCapped ==
    [][ IsQueryStep =>
          \A i \in 1..Len(ambulances) :
              (SameObject(i) /\ HasRoute(ambulances[i]))
              => LET capBudget == (ambulances[i].speed * MaxDeltaMs) \div 3600
                     moved == DistSq(ambulances[i].location,
                                     ambulances'[i].location)
                 IN  /\ moved <= capBudget * capBudget
                     /\ (/\ now' - lastUpdate >= MaxDeltaMs
                         /\ BeforeLast(ambulances[i])
                         /\ ambulances'[i].routeIndex = ambulances[i].routeIndex)
                        => moved = capBudget * capBudget ]_vars

\* a vehicle part of the way along the first leg of its path after a tick
\* that followed an idle gap longer than the cap
C5_Witness ==
    /\ lastStep.kind = "query"
    /\ lastStep.elapsed > MaxDeltaMs
    /\ \E i \in 1..Len(ambulances) :
           /\ HasRoute(ambulances[i])
           /\ ambulances[i].routeIndex = 0
           /\ ambulances[i].location # At(ambulances[i].route, 0)

\* C6 as stated: a request with the same query as the one before it and no
\* time elapsed since is answered with the same location for every vehicle,
\* whichever route fetches settled in between.
C6_FrozenClockSameLocations ==
    [][ (IsQueryStep /\ response # Null /\ lastQuery' = lastQuery /\ now' = now)
        => \A i \in 1..Len(Data) :
               response'[1].data[i].location = Data[i].location ]_vars

\* C7 as stated: a request whose reference is farther than the threshold
\* from the reference the fleet was spawned around is answered with ten
\* vehicles created by that request, each within the spawn radius of the
\* new reference on both axes.
C7_FarReferenceRespawns ==
    [][ (/\ IsQueryStep
         /\ lastQuery'.lat.kind = "numeric"
         /\ lastQuery'.lng.kind = "numeric"
         /\ TooFar(anchor, lastQuery'.lat.num, lastQuery'.lng.num))
        => /\ Len(response'[1].data) = FleetSize
           /\ \A i \in 1..Len(response'[1].data) :
                  LET amb == response'[1].data[i]
                  IN  /\ amb.batch # Batch
                      /\ Abs(amb.location.lat - lastQuery'.lat.num) <= SpawnRadius
                      /\ Abs(amb.location.lng - lastQuery'.lng.num) <= SpawnRadius
      ]_vars

\* C8: while the route provider is never available, every response reports
\* success with ten vehicles, none of which has a path.
C8_UnavailableProviderStillAnswers ==
    response # Null =>
        /\ response[1].success
        /\ response[1].count = FleetSize
        /\ Len(Data) = FleetSize
        /\ \A i \in 1..Len(Data) : Data[i].route = << >>

\* a response after a fetch has failed and the fleet was respawned
C8_Witness ==
    /\ lastStep.kind = "query"
    /\ response # Null
    /\ completions > 0
    /\ Batch > 0
    /\ \E i \in 1..Len(ambulances) : ~Pending(i)

\* C9: when the route fetch issued for a vehicle that had finished its path
\* succeeds, the vehicle, whose path was empty, has a non-empty path and its
\* cursor at 0, which is what the next tick finds.
C9_RerouteAfterArrival ==
    [][ (IsSettleStep /\ lastStep'.kind = "fetch" /\ lastStep'.ok
           /\ lastStep'.again)
        => LET i == lastStep'.slot
           IN  /\ ~HasRoute(ambulances[i])
               /\ HasRoute(ambulances'[i])
               /\ ambulances'[i].routeIndex = 0 ]_vars

\* a vehicle that finished a path and has just been given a new one
C9_Witness ==
    /\ lastStep.kind = "fetch"
    /\ lastStep.ok
    /\ lastStep.again
    /\ HasRoute(ambulances[lastStep.slot])
    /\ ambulances[lastStep.slot].routeIndex = 0

\* C10 as stated: after a tick, every vehicle without a path has a route
\* request pending, so that a vehicle whose fetch failed is served again.
C10_PathlessVehicleIsRequestedAgain ==
    lastStep.kind = "query" =>
        \A i \in 1..Len(ambulances) : ~HasRoute(ambulances[i]) => Pending(i)

\* C11 as stated: a request whose reference is farther than the threshold
\* from the reference the fleet was last spawned around replaces the fleet
\* with ten new vehicles spawned around the request's reference.
C11_FarFromAnchorRespawns ==
    [][ (/\ IsQueryStep
         /\ lastQuery'.lat.kind = "numeric"
         /\ lastQuery'.lng.kind = "numeric"
         /\ TooFar(anchor, lastQuery'.lat.num, lastQuery'.lng.num))
        => /\ lastStep'.respawned
           /\ ambulances'[1].batch # Batch
           /\ anchor' = Point(lastQuery'.lat.num, lastQuery'.lng.num) ]_vars

\* C12 as stated: a request whose reference is within the threshold of the
\* reference the fleet was last spawned around causes no respawn: the
\* vehicles of the fleet are the objects they were.
C12_NearAnchorReuses ==
    [][ (/\ IsQueryStep
         /\ lastQuery'.lat.kind = "numeric"
         /\ lastQuery'.lng.kind = "numeric"
         /\ ~TooFar(anchor, lastQuery'.lat.num, lastQuery'.lng.num))
        => /\ ~lastStep'.respawned
           /\ \A i \in 1..Len(ambulances) : SameObject(i)
           /\ anchor' = anchor ]_vars

\* C13 as stated: in every state and in every response both axes of every
\* vehicle's location are finite numbers.
C13_LocationIsValidCoordinate ==
    /\ \A i \in 1..Len(ambulances) :
           /\ IsFinite(ambulances[i].location.lat)
           /\ IsFinite(ambulances[i].location.lng)
    /\ response # Null =>
           \A i \in 1..Len(Data) :
               /\ IsFinite(Data[i].location.lat)
               /\ IsFinite(Data[i].location.lng)

\* C14 as stated: every route fetch that is pending for a vehicle of the
\* fleet is eventually settled, also when the provider never answers.
C14_EveryFetchResolves ==
    \A i \in 1..FleetSize : Pending(i) ~> ~Pending(i)

\* C15: one tick leaves a vehicle's cursor unchanged or adds exactly 1 to
\* it, and a vehicle whose cursor advanced is at the waypoint of the new
\* cursor, not beyond it, whatever the budget.
C15_CursorAdvancesAtMostOne ==
    [][ IsQueryStep =>
          \A i \in 1..Len(ambulances) :
              SameObject(i) =>
                  /\ ambulances'[i].routeIndex \in
                         { ambulances[i].routeIndex, ambulances[i].routeIndex + 1 }
                  /\ ambulances'[i].routeIndex = ambulances[i].routeIndex + 1
                     => ambulances'[i].location =
                            At(ambulances[i].route, ambulances[i].routeIndex + 1)
      ]_vars

\* after a tick with the capped budget a vehicle stands at a waypoint that
\* is neither the first nor the last of its path, with a budget that covers
\* the leg that led to the waypoint and the leg after it: the tick stopped it
\* there (standing there before, it would have been moved on)
C15_Witness ==
    /\ lastStep.kind = "query"
    /\ lastStep.elapsed >= MaxDeltaMs
    /\ \E i \in 1..Len(ambulances) :
           LET amb == ambulances[i]
               k == amb.routeIndex
           IN  /\ HasRoute(amb)
               /\ k >= 1
               /\ k + 1 < Len(amb.route)
               /\ amb.location = At(amb.route, k)
               /\ DistToMove(amb.speed, MaxDeltaMs) >=
                      DistToNext(At(amb.route, k).lat - At(amb.route, k - 1).lat,
                                 At(amb.route, k).lng - At(amb.route, k - 1).lng)
                      + DistToNext(At(amb.route, k + 1).lat - At(amb.route, k).lat,
                                   At(amb.route, k + 1).lng - At(amb.route, k).lng)

\* C16: a step that changes a vehicle's location or the time of the last
\* tick is the handling of a request; settling a route fetch, with a path or
\* without, changes neither.
C16_OnlyQueriesMoveOrTick ==
    [][ /\ IsSettleStep =>
            /\ lastUpdate' = lastUpdate
            /\ Len(ambulances') = Len(ambulances)
            /\ \A i \in 1..Len(ambulances) :
                   ambulances'[i].location = ambulances[i].location
        /\ (\/ lastUpdate' # lastUpdate
            \/ Len(ambulances') # Len(ambulances)
            \/ \E i \in 1..Len(ambulances) :
                   ambulances'[i].location # ambulances[i].location)
           => IsQueryStep ]_vars

\* a fetch has just given a path with several waypoints to a vehicle of a
\* fleet that requests have ticked
C16_Witness ==
    /\ lastStep.kind = "fetch"
    /\ lastStep.ok
    /\ queries > 0
    /\ Len(ambulances[lastStep.slot].route) > 2
    /\ ambulances[lastStep.slot].routeIndex = 0

\* C17 as stated: a request with a non-numeric reference coordinate is
\* answered with success, decides the respawn by the distance to the default
\* reference and spawns, if it spawns, around the default reference.
C17_MalformedFallsBackToDefault ==
    [][ (IsQueryStep /\ (lastQuery'.lat.kind = "text"
                          \/ lastQuery'.lng.kind = "text"))
        => /\ response'[1].success
           /\ lastStep'.respawned
                 => /\ TooFar(ambulances[1].location, BASE_LAT, BASE_LNG)
                    /\ anchor' = BaseRef
                    /\ \A i \in 1..Len(ambulances') :
                           /\ Abs(ambulances'[i].location.lat - BASE_LAT)
                                  <= SpawnRadius
                           /\ Abs(ambulances'[i].location.lng - BASE_LNG)
                                  <= SpawnRadius ]_vars

\* C18: every vehicle's speed is within 30..60 km/h, and no step changes the
\* identity, the operator name, the status or the speed of a vehicle object:
\* neither a tick nor the settling of a route fetch.
C18_AttributesFixedAtCreation ==
    /\ [](\A i \in 1..Len(ambulances) :
             ambulances[i].speed >= 30 /\ ambulances[i].speed <= 60)
    /\ [][ \A i \in 1..Len(ambulances) :
              SameObject(i) =>
                  /\ ambulances'[i].id = ambulances[i].id
                  /\ ambulances'[i].driverName = ambulances[i].driverName
                  /\ ambulances'[i].status = ambulances[i].status
                  /\ ambulances'[i].speed = ambulances[i].speed ]_vars

\* a vehicle whose status is not that of a moving vehicle has been given a
\* path and moved along it to its second waypoint or further
C18_Witness ==
    /\ lastStep.kind = "query"
    /\ completions > 0
    /\ \E i \in 1..Len(ambulances) :
           /\ HasRoute(ambulances[i])
           /\ ambulances[i].routeIndex > 0
           /\ ambulances[i].status = "Busy"

\* C19: the fleet always holds exactly ten vehicles with pairwise distinct
\* identities, all created by one call of initializeAmbulances, and in every
\* response the count is the length of the data list, which is that fleet:
\* no request finds or returns an empty fleet.
C19_OneFleetOfTen ==
    /\ Len(ambulances) = FleetSize
    /\ \A i, j \in 1..Len(ambulances) :
           /\ ambulances[i].batch = ambulances[j].batch
           /\ i # j => ambulances[i].id # ambulances[j].id
    /\ response # Null =>
           /\ response[1].count = Len(Data)
           /\ Len(Data) = FleetSize
           /\ \A i, j \in 1..Len(Data) :
                  /\ Data[i].batch = Data[j].batch
                  /\ i # j => Data[i].id # Data[j].id

\* the response of a request that replaced the fleet
C19_Witness ==
    /\ lastStep.kind = "query"
    /\ lastStep.respawned
    /\ response # Null
    /\ Batch > 0
    /\ Data = ambulances

\* C20: a tick finds a vehicle on a path before its last waypoint, with
\* budget = (speed / 3.6) * dt metres and d the distance from its location to
\* the next waypoint.  If budget >= d the vehicle is at the next waypoint
\* with its cursor advanced by 1; otherwise its cursor is unchanged and it
\* has moved by the fraction budget / d of the way on both axes.
C20_TickStep ==
    [][ IsQueryStep =>
          \A i \in 1..Len(ambulances) :
              (SameObject(i) /\ HasRoute(ambulances[i]) /\ BeforeLast(ambulances[i]))
              => LET amb == ambulances[i]
                     next == At(amb.route, amb.routeIndex + 1)
                     dt == Min(now' - lastUpdate, MaxDeltaMs)
                     budget == (amb.speed * dt) \div 3600
                     d == Sqrt(DistSq(amb.location, next))
                 IN  IF budget >= d
                     THEN /\ ambulances'[i].location = next
                          /\ ambulances'[i].routeIndex = amb.routeIndex + 1
                     ELSE /\ ambulances'[i].routeIndex = amb.routeIndex
                          /\ d * (ambulances'[i].location.lat - amb.location.lat)
                                = budget * (next.lat - amb.location.lat)
                          /\ d * (ambulances'[i].location.lng - amb.location.lng)
                                = budget * (next.lng - amb.location.lng) ]_vars

\* a vehicle that was moved on to the second waypoint of its path and then
\* part of the way along the leg after it
C20_Witness ==
    /\ lastStep.kind = "query"
    /\ lastStep.elapsed > 0
    /\ \E i \in 1..Len(ambulances) :
           LET amb == ambulances[i]
           IN  /\ Len(amb.route) > 2
               /\ amb.routeIndex = 1
               /\ amb.location.lat = At(amb.route, 0).lat + 15
               /\ amb.location.lng > At(amb.route, 0).lng + 20
               /\ amb.location.lng < At(amb.route, 0).lng + 40

\* the route requests a step issues for the vehicle object of slot i
Issued(i) ==
    { r \in inflight' \ inflight : r.slot = i /\ r.batch = ambulances[i].batch }

\* C21: a tick that finds a vehicle with its cursor at the last waypoint of
\* a non-empty path empties the path, leaves the location as it is and
\* issues exactly one route request for the vehicle: from its location to a
\* destination drawn around its location.
C21_ArrivalClearsAndRequests ==
    [][ IsQueryStep =>
          \A i \in 1..Len(ambulances) :
              (SameObject(i) /\ HasRoute(ambulances[i])
                 /\ ~BeforeLast(ambulances[i]))
              => /\ ambulances'[i].route = << >>
                 /\ ambulances'[i].location = ambulances[i].location
                 /\ Cardinality(Issued(i)) = 1
                 /\ \A r \in Issued(i) :
                        /\ r.startLat = ambulances[i].location.lat
                        /\ r.startLng = ambulances[i].location.lng
                        /\ Abs(r.destLat - ambulances[i].location.lat)
                               <= DestRadius
                        /\ Abs(r.destLng - ambulances[i].location.lng)
                               <= DestRadius ]_vars

\* after a tick a vehicle that has travelled a path to its end has no path
\* and a route request pending from where it stands
C21_Witness ==
    /\ lastStep.kind = "query"
    /\ \E i \in 1..Len(ambulances) :
           /\ ~HasRoute(ambulances[i])
           /\ ambulances[i].routeIndex > 0
           /\ ambulances[i].destination # Null
           /\ \E r \in inflight :
                  /\ r.batch = ambulances[i].batch
                  /\ r.slot = i
                  /\ r.startLat = ambulances[i].location.lat
                  /\ r.startLng = ambulances[i].location.lng

\* C22: a tick leaves a vehicle without a path as it is, location, cursor,
\* destination and last-updated time included, and issues no route request
\* for it; it sets the last-updated time of the vehicles that have a path.
C22_PathlessUntouched ==
    [][ IsQueryStep =>
          \A i \in 1..Len(ambulances) :
              SameObject(i) =>
                  IF HasRoute(ambulances[i])
                  THEN ambulances'[i].lastUpdated = now'
                  ELSE /\ ambulances'[i] = ambulances[i]
                       /\ Issued(i) = { } ]_vars

\* after a tick at a later time, a vehicle with a path bears the time of
\* the tick and a vehicle without a path an earlier time
C22_Witness ==
    /\ lastStep.kind = "query"
    /\ ~lastStep.respawned
    /\ \E i, j \in 1..Len(ambulances) :
           /\ ~HasRoute(ambulances[i])
           /\ ambulances[i].lastUpdated < now
           /\ HasRoute(ambulances[j])
           /\ ambulances[j].lastUpdated = now

\* C23: the time of the last tick is always the time of the last request:
\* every request sets it to its own reading of the clock, whether or not a
\* vehicle moved, and settling a fetch leaves it alone.  So the budget of a
\* tick is bounded by the capped time since the request before it, also for
\* a vehicle that waited longer than that for its path.
C23_LastTickIsLastQuery ==
    /\ [](lastUpdate = now)
    /\ [][ /\ IsQueryStep =>
                /\ lastUpdate' = now'
                /\ \A i \in 1..Len(ambulances) :
                       ((SameObject(i) /\ HasRoute(ambulances[i])
                           /\ BeforeLast(ambulances[i]))
                        => LET dt == Min(now' - now, MaxDeltaMs)
                               budget == (ambulances[i].speed * dt) \div 3600
                           IN  DistSq(ambulances[i].location,
                                      ambulances'[i].location)
                                  <= budget * budget)
           /\ IsSettleStep => lastUpdate' = lastUpdate ]_vars

\* a vehicle of the first fleet that got its path after time had passed
\* stands at the start of the path after a tick with no time elapsed
C23_Witness ==
    /\ lastStep.kind = "query"
    /\ lastStep.elapsed = 0
    /\ now > 0
    /\ Batch = 0
    /\ \E i \in 1..Len(ambulances) :
           /\ Len(ambulances[i].route) > 2
           /\ ambulances[i].routeIndex = 0
           /\ ambulances[i].location = At(ambulances[i].route, 0)
           /\ ambulances[i].lastUpdated = now

\* the route requests a step settles
Settled == inflight \ inflight'

\* C24: the step that settles a fetch of a vehicle of the fleet with a path
\* gives the vehicle, which had no path and stands where the request
\* started, that path, the cursor 0 and the destination of the request, all
\* in the one step, and changes nothing else of the fleet; the step that
\* settles it without a path changes nothing of the fleet.
C24_AssignmentEffect ==
    [][ (IsSettleStep /\ lastStep'.kind = "fetch")
        => \A req \in Settled :
              LET i == req.slot
              IN  /\ ~HasRoute(ambulances[i])
                  /\ ambulances[i].location =
                         Point(req.startLat, req.startLng)
                  /\ \A j \in 1..Len(ambulances) :
                         j # i => ambulances'[j] = ambulances[j]
                  /\ IF lastStep'.ok
                     THEN /\ HasRoute(ambulances'[i])
                          /\ ambulances'[i] =
                                 [ambulances[i] EXCEPT
                                    !.route = ambulances'[i].route,
                                    !.routeIndex = 0,
                                    !.destination =
                                        Some(Point(req.destLat, req.destLng))]
                     ELSE ambulances'[i] = ambulances[i] ]_vars

\* the fetch issued when a vehicle finished a path has just failed: the
\* vehicle keeps its empty path, the cursor and the destination of the path
\* it finished
C24_Witness ==
    /\ lastStep.kind = "fetch"
    /\ ~lastStep.ok
    /\ lastStep.again
    /\ ~HasRoute(ambulances[lastStep.slot])
    /\ ambulances[lastStep.slot].routeIndex > 0
    /\ ambulances[lastStep.slot].destination # Null

\* the fleet is as initializeAmbulances leaves it: ten vehicles of one
\* call, each with an empty path, cursor 0, no destination and exactly one
\* route request pending
FreshFleet(fleet, pending) ==
    /\ Len(fleet) = FleetSize
    /\ \A i \in 1..Len(fleet) :
           /\ fleet[i].batch = fleet[1].batch
           /\ fleet[i].route = << >>
           /\ fleet[i].routeIndex = 0
           /\ fleet[i].destination = Null
           /\ Cardinality({ r \in pending :
                              r.batch = fleet[i].batch /\ r.slot = i }) = 1

\* C25: when the module is loaded, and after every request that respawns,
\* the fleet is a fresh fleet, and after a respawn none of its vehicles is a
\* vehicle of the fleet before.
C25_InitializeReplacesFleet ==
    /\ [](lastStep.kind = "load" => FreshFleet(ambulances, inflight))
    /\ [][ (IsQueryStep /\ lastStep'.respawned)
            => /\ FreshFleet(ambulances', inflight')
               /\ \A i \in 1..Len(ambulances'), j \in 1..Len(ambulances) :
                      ambulances'[i].batch # ambulances[j].batch ]_vars

\* a request has just replaced a fleet that had a vehicle on a path and
\* route requests pending, which are pending still
C25_Witness ==
    /\ lastStep.kind = "query"
    /\ lastStep.respawned
    /\ Batch > 0
    /\ completions > 0
    /\ \E r \in inflight : r.batch < Batch
    /\ \A i \in 1..Len(ambulances) : ~HasRoute(ambulances[i])

\* C26: the response of a request is made after the respawn decision and
\* the tick: it bears the time of the request and lists, after a respawn,
\* the new vehicles as created at that time and, without one, the fleet the
\* request found with one tick applied to it.  Settling a fetch afterwards
\* changes the fleet and not the response.
C26_RespawnThenTickThenResponse ==
    [][ /\ IsQueryStep =>
            /\ response'[1].timestamp = now'
            /\ IF lastStep'.respawned
               THEN \A i \in 1..Len(response'[1].data) :
                        /\ response'[1].data[i].batch # Batch
                        /\ response'[1].data[i].lastUpdated = now'
                        /\ ~HasRoute(response'[1].data[i])
               ELSE response'[1].data =
                        UpdateAmbulances(ambulances,
                                         DeltaTime(now', lastUpdate), now')
        /\ IsSettleStep => response' = response ]_vars

\* a fetch that settled after a response gave a path to a vehicle that the
\* response shows without one
C26_Witness ==
    /\ lastStep.kind = "fetch"
    /\ lastStep.ok
    /\ response # Null
    /\ HasRoute(ambulances[lastStep.slot])
    /\ ~HasRoute(Data[lastStep.slot])
    /\ Data[lastStep.slot].batch = ambulances[lastStep.slot].batch

\* C27: a request without latitude or without longitude does not respawn:
\* every vehicle of the fleet is the object it was, and the fleet is the one
\* the request found with one tick applied to it.
C27_NoReferenceNoRespawn ==
    [][ (IsQueryStep /\ (lastQuery'.lat.kind = "undefined"
                          \/ lastQuery'.lng.kind = "undefined"))
        => /\ ~lastStep'.respawned
           /\ \A i \in 1..Len(ambulances) : SameObject(i)
           /\ anchor' = anchor
           /\ ambulances' =
                  UpdateAmbulances(ambulances, DeltaTime(now', lastUpdate), now')
      ]_vars

\* a request with a latitude a degree away from the whole fleet and no
\* longitude has been answered with the vehicles of the first fleet
C27_Witness ==
    /\ lastStep.kind = "query"
    /\ lastQuery = OnlyLat
    /\ Batch = 0
    /\ response # Null
    /\ \A i \in 1..Len(Data) :
           /\ Data[i].batch = 0
           /\ Abs(Data[i].location.lat - lastQuery.lat.num) > RespawnThreshold

\* the path with the given shape from the start of request req
PathOf(req, shape) ==
    [k \in 1..Len(shape) |->
        Point(req.startLat + shape[k].lat, req.startLng + shape[k].lng)]

\* C28: for every pending request, fetchRoute resolves to null on a
\* transport error, an error body, a route without geometry and an empty
\* route list, and to the waypoints of the first candidate when the body
\* has routes; a vehicle whose fetch failed has no path, and every response
\* reports success with nothing but success, count, timestamp and data.
C28_FetchNeverRaises ==
    /\ \A req \in inflight :
           /\ \A resp \in Failures : FetchRoute(resp) = Null
           /\ Routable(req) =>
                  \A shape \in RouteShapes :
                      \A resp \in Successes(req.startLat, req.startLng, shape) :
                          FetchRoute(resp) = Some(PathOf(req, shape))
    /\ (lastStep.kind = "fetch" /\ ~lastStep.ok)
          => ~HasRoute(ambulances[lastStep.slot])
    /\ response # Null =>
           /\ response[1].success
           /\ DOMAIN response[1] = {"success", "count", "timestamp", "data"}

\* a request has been answered after the fetch of a vehicle of the first
\* fleet failed, while the fetches of other vehicles can still fail or
\* succeed
C28_Witness ==
    /\ lastStep.kind = "query"
    /\ ~lastStep.respawned
    /\ completions > 0
    /\ response # Null
    /\ \E i \in 1..Len(Data) :
           /\ ~HasRoute(Data[i])
           /\ Data[i].destination = Null
           /\ ~Pending(i)
    /\ \E req \in inflight : Routable(req)

\* C29: the step that settles a fetch with a path gives the vehicle the
\* provider's geometry point for point and in order, each [lng, lat] pair of
\* the wire as a waypoint with lat the second and lng the first element.
C29_WaypointsLatitudeFirst ==
    [][ (IsSettleStep /\ lastStep'.kind = "fetch" /\ lastStep'.ok)
        => \A req \in Settled :
              \E shape \in RouteShapes :
                  LET wire == OsrmGeometry(req.startLat, req.startLng, shape)
                      path == ambulances'[req.slot].route
                  IN  /\ Len(path) = Len(wire)
                      /\ \A k \in 1..Len(wire) :
                             /\ path[k].lat = wire[k][2]
                             /\ path[k].lng = wire[k][1]
                      /\ path = PathOf(req, shape) ]_vars

\* a vehicle has just been given a path of four waypoints that starts where
\* the vehicle stands and leads north-east
C29_Witness ==
    /\ lastStep.kind = "fetch"
    /\ lastStep.ok
    /\ LET amb == ambulances[lastStep.slot]
       IN  /\ Len(amb.route) = 4
           /\ amb.route[1] = amb.location
           /\ amb.route[4].lat = amb.location.lat + 15
           /\ amb.route[4].lng = amb.location.lng + 45

\* C30 as stated: a request with a numeric latitude and a numeric longitude
\* respawns exactly when the first vehicle is farther than the threshold
\* from that reference, and a respawn is around that reference, also when a
\* coordinate is 0.
C30_NumericReferenceUsedAsSupplied ==
    [][ (/\ IsQueryStep
         /\ lastQuery'.lat.kind = "numeric"
         /\ lastQuery'.lng.kind = "numeric")
        => /\ lastStep'.respawned
                 = TooFar(ambulances[1].location,
                          lastQuery'.lat.num, lastQuery'.lng.num)
           /\ lastStep'.respawned
                 => anchor' = Point(lastQuery'.lat.num, lastQuery'.lng.num)
      ]_vars

\* the route fetches in flight for the vehicle object created in slot i by
\* call batch of initializeAmbulances
FetchesOf(batch, i) == { r \in inflight : r.batch = batch /\ r.slot = i }

\* C31: at most one route fetch is in flight for a vehicle, whether it is of
\* the fleet or of one a respawn replaced, and a vehicle with a fetch in
\* flight has no path; a request issues a fetch only for a vehicle that had
\* none in flight, whatever requests and completions came before.
C31_OneFetchPerVehicle ==
    /\ [](\A r \in inflight : Cardinality(FetchesOf(r.batch, r.slot)) = 1)
    /\ [](\A i \in 1..Len(ambulances) :
             Pending(i) => ~HasRoute(ambulances[i]))
    /\ [][ IsQueryStep
            => \A r \in inflight' \ inflight : FetchesOf(r.batch, r.slot) = { }
       ]_vars

\* a tick has just issued the second fetch of a vehicle, whose first fetch
\* completed with the path the vehicle finished, while fetches of other
\* vehicles are in flight still
C31_Witness ==
    /\ lastStep.kind = "query"
    /\ ~lastStep.respawned
    /\ \E i \in 1..Len(ambulances) :
           /\ Pending(i)
           /\ ambulances[i].destination # Null
           /\ ambulances[i].lastUpdated = now
           /\ \E j \in 1..Len(ambulances) : j # i /\ Pending(j)

\* C32: the step that completes a route fetch issued for a vehicle of a
\* fleet a respawn has replaced leaves every vehicle of the fleet as it was,
\* its path, cursor, destination and location included, and leaves the last
\* response as it was, whether the fetch brought a path or not.
C32_StaleFetchChangesNothing ==
    [][ IsSettleStep
        => \A req \in Settled :
              req.batch # ambulances[req.slot].batch
              => /\ Len(ambulances') = Len(ambulances)
                 /\ \A i \in 1..Len(ambulances) :
                        /\ ambulances'[i].route = ambulances[i].route
                        /\ ambulances'[i].routeIndex = ambulances[i].routeIndex
                        /\ ambulances'[i].destination = ambulances[i].destination
                        /\ ambulances'[i] = ambulances[i]
                 /\ response' = response ]_vars

\* the fetch issued at load for the first vehicle has just completed with a
\* path after a request replaced the fleet: the vehicle now in its slot has
\* no path and its own fetch in flight
C32_Witness ==
    /\ lastStep.kind = "stale"
    /\ lastStep.ok
    /\ Batch > 0
    /\ ~HasRoute(ambulances[lastStep.slot])
    /\ ambulances[lastStep.slot].destination = Null
    /\ Pending(lastStep.slot)

\* C33: a request that neither replaces a vehicle nor ends its path leaves
\* the waypoints of the path as they were, so the path in the response is
\* the path the route provider returned; only the location, the cursor and
\* the last-updated time of the vehicle change.
C33_WaypointsNeverModified ==
    [][ IsQueryStep
        => \A i \in 1..Len(ambulances) :
              (SameObject(i) /\ HasRoute(ambulances[i]) /\ BeforeLast(ambulances[i]))
              => /\ ambulances'[i].route = ambulances[i].route
                 /\ Data'[i].route = ambulances[i].route ]_vars

\* no request was handled since the one that respawned the fleet last
JustRespawned == queries = lastRespawn.at

\* C34: from the request that respawned the fleet around reference r until
\* the next request, whichever route fetches complete, the respawn check of
\* a request with the same r is negative; the request that follows the
\* respawn with the same r does not respawn: it keeps the vehicles.
C34_NoRespawnLoop ==
    /\ [](JustRespawned
            => ~ShouldReinit(ambulances, lastRespawn.query,
                             CenterLat(lastRespawn.query),
                             CenterLng(lastRespawn.query)))
    /\ [][ (IsQueryStep /\ JustRespawned /\ lastQuery' = lastRespawn.query)
            => /\ ~lastStep'.respawned
               /\ lastRespawn' = lastRespawn
               /\ \A i \in 1..Len(ambulances) : SameObject(i) ]_vars

\* a request respawned the fleet around its reference, the route fetch of
\* the first new vehicle completed with a path, and the next request, with
\* the same reference, has just been answered with the same vehicles
C34_Witness ==
    /\ lastStep.kind = "query"
    /\ ~lastStep.respawned
    /\ lastRespawn.at > 0
    /\ queries = lastRespawn.at + 1
    /\ lastQuery = lastRespawn.query
    /\ Batch > 0
    /\ ambulances[1].destination # Null
    /\ Data[1].batch = Batch

\* vehicle i is on a path, before its last waypoint
EnRoute(i) == HasRoute(ambulances[i]) /\ BeforeLast(ambulances[i])

\* vehicle i stands on the last waypoint of its path, the cursor on it
AtLastWaypoint(i) ==
    /\ HasRoute(ambulances[i])
    /\ ambulances[i].routeIndex = Len(ambulances[i].route) - 1
    /\ ambulances[i].location =
           At(ambulances[i].route, Len(ambulances[i].route) - 1)

\* C35: while the client goes on polling, with time passing between its
\* requests and no respawn, a vehicle that is on a path before its last
\* waypoint comes to stand on the last waypoint with the cursor on it.  The
\* polls are counted up to MaxPolls, so the vehicle starts while the polls
\* the longest path takes are still to come.
C35_PollingBringsVehicleToLastWaypoint ==
    \A i \in 1..FleetSize :
        (EnRoute(i) /\ queries + PollsToArrive <= MaxPolls)
            ~> AtLastWaypoint(i)

\* the first vehicle has come to the end of the path of four waypoints in
\* five polls or more: it moved by interpolation and by snapping
C35_Witness ==
    /\ lastStep.kind = "query"
    /\ Len(ambulances[1].route) = 4
    /\ AtLastWaypoint(1)
    /\ queries >= 5
    /\ Batch = 0

\* the centre a request with query q uses
CenterOf(q) == Point(CenterLat(q), CenterLng(q))

\* the greatest distance between a centre and a vehicle spawned around it:
\* the spawn radius on both axes
SpawnReach == Sqrt(2 * SpawnRadius * SpawnRadius) + 1

\* a and b are farther apart than the respawn threshold plus the spawn reach
FartherApart(a, b) ==
    LET bound == RespawnThreshold + SpawnReach
        dLat == Abs(a.lat - b.lat)
        dLng == Abs(a.lng - b.lng)
    IN  \/ dLat > bound
        \/ dLng > bound
        \/ dLat * dLat + dLng * dLng > bound * bound

\* the response of the step lists a fleet that the step created: every
\* vehicle where it was spawned, within the spawn radius of the centre of
\* the request on each axis, without a path, created at the time of the
\* response
RespondsWithSpawnedFleet ==
    /\ lastStep'.respawned
    /\ FreshFleet(Data', inflight')
    /\ \A i \in 1..Len(Data') :
           /\ Data'[i].batch \notin { ambulances[j].batch : j \in 1..Len(ambulances) }
           /\ Abs(Data'[i].location.lat - CenterLat(lastQuery')) <= SpawnRadius
           /\ Abs(Data'[i].location.lng - CenterLng(lastQuery')) <= SpawnRadius
           /\ Data'[i].lastUpdated = response'[1].timestamp

\* C36 as stated: when clients whose references are farther apart than the
\* respawn threshold plus the spawn reach take turns, every request that
\* follows the request of another client respawns the fleet and responds
\* with vehicles at their spawn locations.
C36_EveryAlternatingQueryRespawns ==
    [][ (/\ IsQueryStep
         /\ queries > 0
         /\ FartherApart(CenterOf(lastQuery'), CenterOf(lastQuery)))
        => RespondsWithSpawnedFleet ]_vars

\* C36: when clients whose references are farther apart than the respawn
\* threshold plus the spawn reach take turns, the request that follows a
\* request that respawned the fleet respawns it again, whichever route
\* fetches completed in between, and responds with vehicles at their spawn
\* locations; so from the first respawn on every request respawns and no
\* response shows a vehicle moved.
C36_AlternatingQueriesRespawnOnceOneDid ==
    [][ (/\ IsQueryStep
         /\ JustRespawned
         /\ lastRespawn.at > 0
         /\ FartherApart(CenterOf(lastQuery'), CenterOf(lastRespawn.query)))
        => RespondsWithSpawnedFleet ]_vars

\* the third request in a row has just respawned the fleet, after the fetch
\* of the first vehicle of the fleet before completed
C36_Witness ==
    /\ lastStep.kind = "query"
    /\ lastStep.respawned
    /\ queries >= 3
    /\ Batch >= 3
    /\ completions > 0
    /\ FetchesOf(Batch - 1, 1) = { }
    /\ \A i \in 1..Len(Data) : ~HasRoute(Data[i]) /\ Data[i].batch = Batch

====
